---- MODULE Spec2Model ----
(***************************************************************************)
(* Model of cox_model.py: one Streamlit script that is executed from top   *)
(* to bottom on every render.  The script loads df_episodes.csv, drops     *)
(* incomplete rows, fits a Cox model, then renders three views: the cohort *)
(* overlay, the bilateral drill-down and the hypothetical scenario.        *)
(*                                                                         *)
(* A table cell is a tuple: <<>> is a missing value (NaN / NaT), <<v>> is  *)
(* the value v.  A data frame is represented by the sequence of the index  *)
(* labels of its rows in `data` (the labels of the loaded table are        *)
(* 1..Len(data)); its cells are read from `data` through the label.        *)
(***************************************************************************)
EXTENDS Integers, Sequences, FiniteSets, TLC

VARIABLES
    file,               \* df_episodes.csv: [columns, rows]
    pc,                 \* position of the script in the current render
    error,              \* exception that ended the render, "none" otherwise
    data,               \* data (l.78)
    data_model,         \* data_model (l.91), index labels
    cph,                \* cph (l.81, l.101): "unfitted" or "fitted"
    usa_terminated,     \* usa_terminated (l.130), index labels
    additional,         \* additional (l.150), original index labels
    final_set,          \* final_set (l.153), original index labels
    selected_initiator, \* l.186
    selected_target,    \* l.190
    filtered_conflicts, \* l.193, index labels
    selected_year,      \* l.208
    conflict_row,       \* l.226, index labels
    calls               \* calls made to the model and to the page in this render

vars == <<file, pc, error, data, data_model, cph, usa_terminated, additional,
          final_set, selected_initiator, selected_target, filtered_conflicts,
          selected_year, conflict_row, calls>>

-----------------------------------------------------------------------------
(* Cells *)

NaN == <<>>

\* The value st.selectbox returns when it has no option to offer.
None == <<"None", "None">>

USA == "United States of America"

big_players ==
    <<"United States of America", "India", "France", "United Kingdom",
      "Russia", "Canada", "Japan">>

\* Python's ordering of the country names that occur in the modelled tables.
CountryOrder ==
    <<"Canada", "China", "France", "India", "Japan", "Russia",
      "United Kingdom", "United States of America">>

features == {"gdp_country_a", "number_of_measures", "mean_duration_months"}

required_cols == {"gdp_country_a", "number_of_measures", "mean_duration_months",
                  "duration_months", "terminated"}

\* cap of the cohort view, quota of the reference country, quota per other initiator
CohortCap == 10
UsaQuota == 5
GroupQuota == 2

-----------------------------------------------------------------------------
(* Input tables *)

MaxRows == 2
MaxUsa == 6
MaxPer == 3

AllColumns ==
    {"country_a", "country_b", "start_date", "start_year", "terminated",
     "duration_months", "number_of_measures", "mean_duration_months",
     "gdp_country_a"}

\* A start_date cell holds <<year, month>>; start_year is a column of its own.
MkRow(a, b, date, sy, term, dur, nm, md, gdp) ==
    [country_a |-> a, country_b |-> b, start_date |-> date, start_year |-> sy,
     terminated |-> term, duration_months |-> dur, number_of_measures |-> nm,
     mean_duration_months |-> md, gdp_country_a |-> gdp]

Episode(a, b, y, term) ==
    MkRow(<<a>>, <<b>>, <<(<<y, 3>>)>>, <<y>>, <<term>>, <<12>>, <<3>>, <<6>>, <<2>>)

\* The rows the small tables are made of: complete and incomplete episodes,
\* terminated and censored, with and without country names and dates.
RowUniverse ==
    { Episode(USA, "India", 2018, 1),
      Episode(USA, "India", 2019, 0),
      [Episode(USA, "India", 2018, 1) EXCEPT !.gdp_country_a = NaN],
      [Episode(USA, "India", 2018, 1) EXCEPT !.number_of_measures = NaN],
      [Episode(USA, "India", 2018, 1) EXCEPT !.mean_duration_months = NaN],
      [Episode(USA, "India", 2018, 1) EXCEPT !.duration_months = NaN],
      [Episode(USA, "India", 2018, 0) EXCEPT !.terminated = NaN],
      [Episode(USA, "India", 2018, 1) EXCEPT !.country_b = NaN],
      [Episode(USA, "India", 2018, 1) EXCEPT !.country_a = NaN],
      [Episode(USA, "India", 2018, 1) EXCEPT !.start_date = NaN, !.start_year = NaN],
      Episode("India", USA, 2018, 1),
      Episode("China", USA, 2018, 1),
      Episode(USA, "China", 2017, 1) }

RECURSIVE SeqsUpTo(_, _)
SeqsUpTo(S, n) ==
    IF n = 0 THEN {<<>>}
    ELSE LET shorter == SeqsUpTo(S, n - 1)
         IN  shorter \cup {Append(s, r) : s \in {t \in shorter : Len(t) = n - 1}, r \in S}

\* Cohort tables: nU episodes of the reference country, then nI, nF, nK
\* episodes of India, France and the United Kingdom (and, with rest, two of
\* each of Canada, Japan and Russia).  The reference country's start years
\* run downwards through the table; when tied is set its two latest episodes
\* start in the same year.
UsaYear(j, nU, tied) == IF tied /\ j = 1 THEN 2010 + (nU - 2) ELSE 2010 + (nU - j)

Block(a, b, n) == [j \in 1..n |-> Episode(a, b, 2012 + j, 1)]

CohortTable(nU, nI, nF, nK, rest, tied) ==
    [j \in 1..nU |-> Episode(USA, "India", UsaYear(j, nU, tied), 1)]
    \o Block("United Kingdom", USA, nK)
    \o Block("India", "France", nI)
    \o <<Episode("India", "China", 2011, 1), Episode("France", USA, 2011, 0)>>
    \o Block("France", "Japan", nF)
    \o (IF rest
        THEN Block("Russia", USA, GroupQuota) \o Block("Canada", USA, GroupQuota)
             \o Block("Japan", USA, GroupQuota)
        ELSE <<>>)

CohortTables ==
    { CohortTable(nU, nI, nF, nK, rest, tied) :
        nU \in 0..MaxUsa, nI \in 0..MaxPer, nF \in 0..MaxPer, nK \in 0..MaxPer,
        rest \in BOOLEAN, tied \in BOOLEAN }

DropColumn(r, c) == [k \in (DOMAIN r) \ {c} |-> r[k]]

\* The files the script may find: with a start_year column, or with the
\* columns of the input contract only.
Files ==
    { [columns |-> AllColumns, rows |-> t] :
        t \in SeqsUpTo(RowUniverse, MaxRows) \cup CohortTables }
    \cup
    { [columns |-> AllColumns \ {"start_year"},
       rows |-> [i \in 1..Len(t) |-> DropColumn(t[i], "start_year")]] :
        t \in SeqsUpTo(RowUniverse, MaxRows) }

-----------------------------------------------------------------------------
(* pandas *)

Min(a, b) == IF a < b THEN a ELSE b
Max(a, b) == IF a > b THEN a ELSE b

RangeIndex(n) == [i \in 1..n |-> i]

Labels(idx) == {idx[k] : k \in 1..Len(idx)}

\* df.head(n)
Head_(idx, n) == SubSeq(idx, 1, Min(n, Len(idx)))

\* dropna with how='all': only the rows missing every cell of cols are dropped
dropna_how_all(df, idx, cols) ==
    SelectSeq(idx, LAMBDA i : \E c \in cols : df[i][c] # NaN)

\* df.dropna(subset=cols): the rows with no missing cell among cols, in order
dropna(df, idx, cols) ==
    SelectSeq(idx, LAMBDA i : \A c \in cols : df[i][c] # NaN)

\* series == value, elementwise: never true of a missing cell, of NaN or of None
Eq(cell, value) == cell # NaN /\ value # NaN /\ value # None /\ cell = value

\* series.isin(big_players)
IsIn(cell, list) == cell # NaN /\ cell[1] \in {list[k] : k \in 1..Len(list)}

\* pd.to_datetime(series).dt.year
DtYear(cell) == IF cell = NaN THEN NaN ELSE <<cell[1][1]>>

\* sorted(list) of strings raises TypeError when NaN is mixed with strings
SortedRaises(cells) == NaN \in cells /\ cells # {NaN}

\* Order of sort_values('start_year'): ascending, missing years last.
YearLE(x, y) == y = NaN \/ (x # NaN /\ x[1] <= y[1])

\* df.sort_values(col): every order the sort may return.  The default sort is
\* not stable, so rows with equal keys may come out in any order.
RECURSIVE sort_values(_, _)
sort_values(labels, key) ==
    IF labels = {} THEN {<<>>}
    ELSE LET least == {i \in labels : \A j \in labels : YearLE(key[i], key[j])}
         IN  UNION {{<<i>> \o rest : rest \in sort_values(labels \ {i}, key)} : i \in least}

\* df.groupby(col, group_keys=False).apply(lambda group: group.head(n)):
\* the groups in the order of their keys, each cut to its first n rows
RECURSIVE groupby_head(_, _, _, _)
groupby_head(df, idx, n, k) ==
    IF k > Len(CountryOrder) THEN <<>>
    ELSE Head_(SelectSeq(idx, LAMBDA i : Eq(df[i].country_a, <<CountryOrder[k]>>)), n)
         \o groupby_head(df, idx, n, k + 1)

-----------------------------------------------------------------------------
(* The script *)

\* One entry of `calls`: what was called, for which view, on which rows.
Call(op, view, rows) == [op |-> op, view |-> view, rows |-> rows]

Init ==
    /\ file \in Files
    /\ pc = "load"
    /\ error = "none"
    /\ data = <<>>
    /\ data_model = <<>>
    /\ cph = "unfitted"
    /\ usa_terminated = <<>>
    /\ additional = <<>>
    /\ final_set = <<>>
    /\ selected_initiator = None
    /\ selected_target = None
    /\ filtered_conflicts = <<>>
    /\ selected_year = None
    /\ conflict_row = <<>>
    /\ calls = <<>>

\* l.78: data = pd.read_csv("df_episodes.csv")
Load ==
    /\ pc = "load"
    /\ data' = file.rows
    /\ pc' = "prepare"
    /\ UNCHANGED <<file, error, data_model, cph, usa_terminated, additional,
                   final_set, selected_initiator, selected_target,
                   filtered_conflicts, selected_year, conflict_row, calls>>

\* l.91-93: data[[country_a, country_b] + features + [duration_months, terminated]].dropna()
PrepareFrame(df) ==
    dropna(df, RangeIndex(Len(df)),
           {"country_a", "country_b"} \cup features \cup {"duration_months", "terminated"})

Prepare ==
    /\ pc = "prepare"
    /\ data_model' = PrepareFrame(data)
    /\ pc' = "fit"
    /\ UNCHANGED <<file, error, data, cph, usa_terminated, additional,
                   final_set, selected_initiator, selected_target,
                   filtered_conflicts, selected_year, conflict_row, calls>>

\* l.101: cph.fit raises on an empty frame; on other frames it raises when the
\* covariates are ill-conditioned, which the cells of the model do not decide.
FitOutcomes(idx) == IF Len(idx) = 0 THEN {"raise"} ELSE {"ok", "raise"}

\* the exception of the fit caught and dropped
AfterFit_swallowed(outcome) == "results"

\* An exception at top level ends the script run.
AfterFit(outcome) == IF outcome = "raise" THEN "raised" ELSE "results"

Fit ==
    /\ pc = "fit"
    /\ \E outcome \in FitOutcomes(data_model) :
        /\ cph' = IF outcome = "ok" THEN "fitted" ELSE "unfitted"
        /\ error' = IF outcome = "raise" THEN "fit" ELSE "none"
        /\ pc' = AfterFit(outcome)
    /\ calls' = Append(calls, Call("fit", "model", data_model))
    /\ UNCHANGED <<file, data, data_model, usa_terminated, additional,
                   final_set, selected_initiator, selected_target,
                   filtered_conflicts, selected_year, conflict_row>>

\* l.105-107: the coefficient table
Results ==
    /\ pc = "results"
    /\ calls' = Append(calls, Call("coef_table", "model", <<>>))
    /\ pc' = "cohort_select"
    /\ UNCHANGED <<file, error, data, data_model, cph, usa_terminated, additional,
                   final_set, selected_initiator, selected_target,
                   filtered_conflicts, selected_year, conflict_row>>

\* l.117: data_model[data_model['terminated'] == 1]
terminated_conflicts(df, dm) == SelectSeq(dm, LAMBDA i : Eq(df[i].terminated, <<1>>))

\* l.120: the start_year column of terminated_conflicts
start_year_of(df, i) == DtYear(df[i].start_date)

\* l.131-134: the rows of the reference country against a big player
UsaRows(df, tc) ==
    SelectSeq(tc, LAMBDA i : Eq(df[i].country_a, <<USA>>) /\ IsIn(df[i].country_b, big_players))

\* l.130-137 without the sort_values
UsaTerminated_unsorted(df, tc) == {Head_(UsaRows(df, tc), UsaQuota)}

\* l.130-137: .sort_values('start_year').head(5), every possible result
UsaTerminated(df, tc) ==
    {Head_(s, UsaQuota) :
        s \in sort_values(Labels(UsaRows(df, tc)),
                          [i \in 1..Len(df) |-> start_year_of(df, i)])}

\* l.140 without the rows already selected
remaining_needed_uncapped(usa) == CohortCap

\* l.140
remaining_needed(usa) == Max(0, CohortCap - Len(usa))

\* l.142-147 without the head(2) of each group
other_bigpower_conflicts_ungrouped(df, tc, usa) ==
    groupby_head(df,
        SelectSeq(tc, LAMBDA i :
            /\ IsIn(df[i].country_a, big_players)
            /\ df[i].country_a # <<USA>>
            /\ IsIn(df[i].country_b, big_players)
            /\ i \notin Labels(usa)),
        Len(tc), 1)

\* l.142-147
other_bigpower_conflicts(df, tc, usa) ==
    groupby_head(df,
        SelectSeq(tc, LAMBDA i :
            /\ IsIn(df[i].country_a, big_players)
            /\ df[i].country_a # <<USA>>
            /\ IsIn(df[i].country_b, big_players)
            /\ i \notin Labels(usa)),
        GroupQuota, 1)

\* l.114-153
CohortSelect ==
    /\ pc = "cohort_select"
    /\ LET tc == terminated_conflicts(data, data_model)
       IN  \E usa \in UsaTerminated(data, tc) :
            LET add == Head_(other_bigpower_conflicts(data, tc, usa), remaining_needed(usa))
            IN  /\ usa_terminated' = usa
                /\ additional' = add
                /\ final_set' = usa \o add
    /\ pc' = "cohort_view"
    /\ UNCHANGED <<file, error, data, data_model, cph, selected_initiator,
                   selected_target, filtered_conflicts, selected_year,
                   conflict_row, calls>>

\* l.156-171
CohortView ==
    /\ pc = "cohort_view"
    /\ calls' = IF Len(final_set) > 0
                THEN calls \o <<Call("predict", "cohort", final_set),
                                Call("plot", "cohort", final_set)>>
                ELSE Append(calls, Call("message", "cohort", <<>>))
    /\ pc' = "drill_initiator"
    /\ UNCHANGED <<file, error, data, data_model, cph, usa_terminated, additional,
                   final_set, selected_initiator, selected_target,
                   filtered_conflicts, selected_year, conflict_row>>

\* st.selectbox(label, options): any option the user picks, None without options
selectbox(options) == IF options = {} THEN {None} ELSE options

\* l.185-186: sorted(data['country_a'].unique()), then the initiator control
DrillInitiator ==
    /\ pc = "drill_initiator"
    /\ LET names == {data[i].country_a : i \in 1..Len(data)}
       IN  IF SortedRaises(names)
           THEN /\ pc' = "raised"
                /\ error' = "TypeError"
                /\ UNCHANGED selected_initiator
           ELSE /\ selected_initiator' \in selectbox(names)
                /\ pc' = "drill_target"
                /\ UNCHANGED error
    /\ UNCHANGED <<file, data, data_model, cph, usa_terminated, additional,
                   final_set, selected_target, filtered_conflicts,
                   selected_year, conflict_row, calls>>

\* l.189: data[data['country_a'] == selected_initiator]['country_b'].unique()
available_targets(df, initiator) ==
    {df[i].country_b : i \in {j \in 1..Len(df) : Eq(df[j].country_a, initiator)}}

\* l.189-190
DrillTarget ==
    /\ pc = "drill_target"
    /\ LET names == available_targets(data, selected_initiator)
       IN  IF SortedRaises(names)
           THEN /\ pc' = "raised"
                /\ error' = "TypeError"
                /\ UNCHANGED selected_target
           ELSE /\ selected_target' \in selectbox(names)
                /\ pc' = "drill_table"
                /\ UNCHANGED error
    /\ UNCHANGED <<file, data, data_model, cph, usa_terminated, additional,
                   final_set, selected_initiator, filtered_conflicts,
                   selected_year, conflict_row, calls>>

\* l.193-196
FilterPair(df, initiator, target) ==
    SelectSeq(RangeIndex(Len(df)),
              LAMBDA i : Eq(df[i].country_a, initiator) /\ Eq(df[i].country_b, target))

\* l.193-203: the pair's episodes, then the table that shows their start_year
DrillTable ==
    /\ pc = "drill_table"
    /\ filtered_conflicts' = FilterPair(data, selected_initiator, selected_target)
    /\ IF "start_year" \in file.columns
       THEN /\ calls' = Append(calls, Call("dataframe", "drill", filtered_conflicts'))
            /\ pc' = "drill_year"
            /\ UNCHANGED error
       ELSE /\ pc' = "raised"
            /\ error' = "KeyError"
            /\ UNCHANGED calls
    /\ UNCHANGED <<file, data, data_model, cph, usa_terminated, additional,
                   final_set, selected_initiator, selected_target,
                   selected_year, conflict_row>>

\* l.206-207: filtered_conflicts['start_year'].dropna().unique()
available_years(df, idx) == {df[i].start_year : i \in Labels(idx)} \ {NaN}

\* l.206-208
DrillYear ==
    /\ pc = "drill_year"
    /\ selected_year' \in selectbox(available_years(data, filtered_conflicts))
    /\ pc' = "drill_curve"
    /\ UNCHANGED <<file, error, data, data_model, cph, usa_terminated, additional,
                   final_set, selected_initiator, selected_target,
                   filtered_conflicts, conflict_row, calls>>

\* l.222-223: the start_year column of valid_conflicts, derived from
\* start_date when the table has none
ValidStartYear(columns, df, i) ==
    IF "start_year" \in columns THEN df[i].start_year ELSE DtYear(df[i].start_date)

\* l.219-226
ConflictRow(columns, df, filtered, year) ==
    SelectSeq(dropna(df, filtered, required_cols),
              LAMBDA i : Eq(ValidStartYear(columns, df, i), year))

\* l.213-250: the curve and the label are those of the first selected row
DrillCurve ==
    /\ pc = "drill_curve"
    /\ conflict_row' = ConflictRow(file.columns, data, filtered_conflicts, selected_year)
    /\ calls' = IF Len(conflict_row') > 0
                THEN calls \o <<Call("predict", "drill", conflict_row'),
                                Call("plot", "drill", <<conflict_row'[1]>>)>>
                ELSE Append(calls, Call("message", "drill", <<>>))
    /\ pc' = "scenario"
    /\ UNCHANGED <<file, error, data, data_model, cph, usa_terminated, additional,
                   final_set, selected_initiator, selected_target,
                   filtered_conflicts, selected_year>>

\* l.264-266: slider positions (GDP growth in tenths of a percent, number of
\* measures, mean duration): the defaults, and the lower ends of the ranges
SliderInputs == {<<23, 15, 8>>, <<-100, 1, 1>>}

\* l.264-288: the scenario is predicted and plotted unconditionally
Scenario ==
    /\ pc = "scenario"
    /\ \E custom_input \in SliderInputs :
        calls' = calls \o <<Call("predict", "scenario", <<custom_input>>),
                            Call("plot", "scenario", <<custom_input>>)>>
    /\ pc' = "done"
    /\ UNCHANGED <<file, error, data, data_model, cph, usa_terminated, additional,
                   final_set, selected_initiator, selected_target,
                   filtered_conflicts, selected_year, conflict_row>>

\* A user interaction re-executes the script from its first line in a fresh
\* namespace: l.78 reloads the table and l.81 creates a new CoxPHFitter.
Rerun ==
    /\ pc \in {"done", "raised"}
    /\ pc' = "load"
    /\ error' = "none"
    /\ data' = <<>>
    /\ data_model' = <<>>
    /\ cph' = "unfitted"
    /\ usa_terminated' = <<>>
    /\ additional' = <<>>
    /\ final_set' = <<>>
    /\ selected_initiator' = None
    /\ selected_target' = None
    /\ filtered_conflicts' = <<>>
    /\ selected_year' = None
    /\ conflict_row' = <<>>
    /\ calls' = <<>>
    /\ UNCHANGED file

Next ==
    \/ Load
    \/ Prepare
    \/ Fit
    \/ Results
    \/ CohortSelect
    \/ CohortView
    \/ DrillInitiator
    \/ DrillTarget
    \/ DrillTable
    \/ DrillYear
    \/ DrillCurve
    \/ Scenario
    \/ Rerun

Spec == Init /\ [][Next]_vars

-----------------------------------------------------------------------------
(* Vocabulary of the properties, stated on the loaded table itself *)

RequiredFields ==
    {"gdp_country_a", "number_of_measures", "mean_duration_months",
     "duration_months", "terminated"}

MajorPowers ==
    {"United States of America", "India", "France", "United Kingdom",
     "Russia", "Canada", "Japan"}

OtherPowers == MajorPowers \ {"United States of America"}

Complete(i) == \A c \in RequiredFields : data[i][c] # NaN

Terminated(i) == data[i].terminated = <<1>>

Initiator(i, c) == data[i].country_a = <<c>>

TargetsMajorPower(i) ==
    \E c \in MajorPowers : data[i].country_b = <<c>>

HasCall(op, view) ==
    \E k \in 1..Len(calls) : calls[k].op = op /\ calls[k].view = view

NumCalls(op) == Cardinality({k \in 1..Len(calls) : calls[k].op = op})

\* the script is past line 96 / past line 153 / past line 171 / past line 250
Prepared == pc \notin {"load", "prepare"}

CohortSelected ==
    \/ pc \in {"cohort_view", "drill_initiator", "drill_target", "drill_table",
               "drill_year", "drill_curve", "scenario", "done"}
    \/ pc = "raised" /\ error # "fit"

CohortViewed == CohortSelected /\ pc # "cohort_view"

\* lines 114-153 have just run: final_set is not assigned again in the render
JustSelected == pc = "cohort_view"

DrillDone == pc \in {"scenario", "done"}

NoDuplicates(s) == \A k, l \in 1..Len(s) : k # l => s[k] # s[l]

\* positions of final_set held by the reference country, and by the others
RefPositions == {k \in 1..Len(final_set) : Initiator(final_set[k], "United States of America")}

BackfillPositions == (1..Len(final_set)) \ RefPositions

\* start year of an episode: the year of its start date, none without a date
StartYear(i) == IF data[i].start_date = NaN THEN NaN ELSE <<data[i].start_date[1][1]>>

NotLater(i, j) ==
    StartYear(j) = NaN \/ (StartYear(i) # NaN /\ StartYear(i)[1] <= StartYear(j)[1])

EligibleRef ==
    {i \in 1..Len(data) :
        Complete(i) /\ Terminated(i) /\ Initiator(i, "United States of America")
        /\ TargetsMajorPower(i)}

Eligible(c) ==
    {i \in 1..Len(data) :
        Complete(i) /\ Terminated(i) /\ Initiator(i, c) /\ TargetsMajorPower(i)}

FirstTwo(c) == {i \in Eligible(c) : Cardinality({j \in Eligible(c) : j < i}) < 2}

Contributed(c) == {final_set[k] : k \in {l \in BackfillPositions : Initiator(final_set[l], c)}}

RECURSIVE SumQuota(_)
SumQuota(cs) ==
    IF cs = {} THEN 0
    ELSE LET c == CHOOSE x \in cs : TRUE
         IN  (IF Cardinality(Eligible(c)) < 2 THEN Cardinality(Eligible(c)) ELSE 2)
             + SumQuota(cs \ {c})

-----------------------------------------------------------------------------
(* Properties *)

\* C1: the final cohort set has at most 10 rows, at most 5 of them initiated
\* by the United States of America, and every other major power initiates at
\* most 2 of them.
C1_CohortCap ==
    /\ Len(final_set) <= 10
    /\ Cardinality(RefPositions) <= 5
    /\ \A c \in OtherPowers :
        Cardinality({k \in 1..Len(final_set) : Initiator(final_set[k], c)}) <= 2

C1_Witness ==
    /\ Len(final_set) = 10
    /\ Cardinality(RefPositions) = 5
    /\ Cardinality(EligibleRef) > 5
    /\ \E c \in OtherPowers : Cardinality(Eligible(c)) > 2 /\ Cardinality(Contributed(c)) = 2

\* C2: the prepared table is exactly the raw rows whose five required fields
\* are all non-null, in input order: every such row is kept and no other.
C2_PreparedIsComplete ==
    Prepared =>
        data_model = SelectSeq([i \in 1..Len(data) |-> i], LAMBDA i : Complete(i))

\* C3: every row given to the model fit, and every row given to a survival
\* prediction by the cohort view or by the bilateral drill-down, has none of
\* the five required fields null.
C3_Completeness ==
    \A k \in 1..Len(calls) :
        (\/ calls[k].op = "fit"
         \/ calls[k].op = "predict" /\ calls[k].view \in {"cohort", "drill"})
        => \A j \in 1..Len(calls[k].rows) : Complete(calls[k].rows[j])

C3_Witness ==
    /\ \E k \in 1..Len(calls) :
        calls[k].op = "predict" /\ calls[k].view = "drill" /\ Len(calls[k].rows) > 0
    /\ \E k \in 1..Len(calls) :
        calls[k].op = "predict" /\ calls[k].view = "cohort" /\ Len(calls[k].rows) > 0
    /\ \E i \in 1..Len(data) : ~Complete(i)

\* C4: when no raw row survives the completeness filter the render does not
\* raise, makes no survival prediction and no plot, and shows a message
\* instead.
C4_EmptyPrepared ==
    (Prepared /\ data_model = <<>>) =>
        /\ pc # "raised"
        /\ NumCalls("predict") = 0
        /\ NumCalls("plot") = 0
        /\ (pc = "done" => NumCalls("message") > 0)

\* the start year the drill-down reads for an episode: its start_year cell,
\* or the year of its start date when the table has no such column
EpisodeYear(i) ==
    IF "start_year" \in DOMAIN data[i] THEN data[i].start_year ELSE StartYear(i)

\* the complete episodes of the selected initiator, target and start year
MatchingEpisodes ==
    {i \in 1..Len(data) :
        /\ Complete(i)
        /\ data[i].country_a = selected_initiator
        /\ data[i].country_b = selected_target
        /\ EpisodeYear(i) # NaN
        /\ EpisodeYear(i) = selected_year}

\* C5: given a successful fit, a view whose selected row set is empty (the
\* cohort view without a terminated major-power episode; the drill-down
\* without a complete row for the chosen initiator, target and start year,
\* also when no year can be chosen) shows its 'no data' message, makes no
\* survival prediction and no plot, raises nothing, and the render goes on.
C5_EmptySelection ==
    /\ (cph = "fitted" /\ CohortViewed /\ final_set = <<>>) =>
        /\ HasCall("message", "cohort")
        /\ ~HasCall("predict", "cohort")
        /\ ~HasCall("plot", "cohort")
    /\ (/\ cph = "fitted"
        /\ pc \in {"done", "raised"}
        /\ selected_initiator # None
        /\ selected_target # None
        /\ MatchingEpisodes = {}) =>
        /\ pc = "done"
        /\ HasCall("message", "drill")
        /\ ~HasCall("predict", "drill")
        /\ ~HasCall("plot", "drill")

\* C6: when the fit raises, the render ends there: no coefficient table, no
\* survival prediction and no plot follows, the fit is called once, and the
\* next render starts at loading the table with no model and no partial
\* result of the failed render.
C6_FitFailure ==
    /\ [](NumCalls("fit") <= 1)
    /\ [](error = "fit" =>
            /\ pc = "raised"
            /\ cph = "unfitted"
            /\ NumCalls("coef_table") = 0
            /\ NumCalls("predict") = 0
            /\ NumCalls("plot") = 0)
    /\ [][error = "fit" =>
            /\ pc' = "load"
            /\ error' = "none"
            /\ cph' = "unfitted"
            /\ data' = <<>>
            /\ data_model' = <<>>
            /\ final_set' = <<>>
            /\ conflict_row' = <<>>
            /\ calls' = <<>>]_vars

C6_Witness ==
    /\ error = "fit"
    /\ pc = "raised"
    /\ data_model # <<>>
    /\ \E i \in 1..Len(data) : Complete(i) /\ Terminated(i)

\* C7: the row set the drill-down selects for prediction has at most one row,
\* that row has all required covariates, and the curve and its label come
\* from it.
C7_UniqueRow ==
    DrillDone =>
        /\ Len(conflict_row) <= 1
        /\ \A k \in 1..Len(conflict_row) : Complete(conflict_row[k])
        /\ \A k \in 1..Len(calls) :
            (calls[k].view = "drill" /\ calls[k].op \in {"predict", "plot"})
            => calls[k].rows = conflict_row

\* C8: on a table with the columns of the input contract and no start_year
\* column (and no missing country name), a render whose fit succeeded
\* completes the drill-down without raising: the data table, the year
\* selection, then the curve or the 'no data' message.
C8_InputContract ==
    (/\ "start_year" \notin file.columns
     /\ \A i \in 1..Len(data) : data[i].country_a # NaN /\ data[i].country_b # NaN
     /\ cph = "fitted"
     /\ pc \in {"done", "raised"}) =>
        /\ pc = "done"
        /\ HasCall("dataframe", "drill")
        /\ (HasCall("plot", "drill") \/ HasCall("message", "drill"))

\* C9: the reference-country rows of the cohort result are the terminated,
\* complete episodes of the United States of America against a major power
\* with the smallest start years (all of them when at most 5, else the 5
\* earliest), in ascending start-year order, ahead of every backfill row.
C9_ReferenceRows ==
    JustSelected =>
        LET n == Cardinality(RefPositions)
            chosen == {final_set[k] : k \in RefPositions}
        IN  /\ RefPositions = 1..n
            /\ chosen \subseteq EligibleRef
            /\ Cardinality(chosen) = n
            /\ n = (IF Cardinality(EligibleRef) <= 5 THEN Cardinality(EligibleRef) ELSE 5)
            /\ \A k \in 1..(n - 1) : NotLater(final_set[k], final_set[k + 1])
            /\ \A i \in chosen : \A j \in EligibleRef \ chosen : NotLater(i, j)

C9_Witness ==
    /\ JustSelected
    /\ Cardinality(EligibleRef) > 5
    /\ Cardinality(RefPositions) = 5
    /\ BackfillPositions # {}
    /\ final_set[1] > final_set[2]
    /\ \E j \in EligibleRef : j < final_set[1] /\ j \notin {final_set[k] : k \in RefPositions}

PairEpisodes ==
    {i \in 1..Len(data) :
        data[i].country_a = selected_initiator /\ data[i].country_b = selected_target}

\* lines 193-196 have run in this render
PairFiltered == pc \in {"drill_year", "drill_curve", "scenario", "done"}

\* C11: every target offered by the target control has a raw episode with the
\* selected initiator, every year offered by the year control is the start
\* year of a raw episode of the selected pair; hence with an initiator and a
\* target selected the pair's filtered episodes are not empty, and a selected
\* year gives the 'no data' message exactly when no episode of the pair with
\* that start year has all five required fields.
C11_DependentControls ==
    /\ selected_target # None => PairEpisodes # {}
    /\ selected_year # None =>
        \E i \in PairEpisodes : EpisodeYear(i) = selected_year
    /\ (PairFiltered /\ selected_initiator # None /\ selected_target # None) =>
        filtered_conflicts # <<>>
    /\ (DrillDone /\ selected_year # None) =>
        (HasCall("message", "drill") <=>
            ~\E i \in PairEpisodes : Complete(i) /\ EpisodeYear(i) = selected_year)

====
